---- MODULE Spec2Model ----
(***************************************************************************)
(* A model of wiki.py: the WikipediaGraph adjacency mapping, its ingestion *)
(* from a tab-separated edge list, the breadth-first shortest-path search, *)
(* the degree queries and the shared-link recommendation.                  *)
(*                                                                         *)
(* A Python dict is an insertion-ordered mapping: it is modelled by the    *)
(* pair (adj_order, adj_list), the sequence of keys in insertion order and *)
(* the function from keys to out-link sequences.                           *)
(***************************************************************************)
EXTENDS Integers, Sequences, FiniteSets, TLC

\* ---------------------------------------------------------------- bounds

\* Lines read from the edge-list file in the full program model.
MaxRecords == 3
\* Lines read from the edge-list file in the recommendation model.
MaxFileRecords == 5
\* Largest top_n a caller passes (the smallest is -1).
MaxTopN == 2

\* Page titles: those of the file's title columns and those a caller passes.
Titles == {<<"A">>, <<"B">>, <<"C">>}
\* Values of top_n a caller passes (int(input(...)) accepts any integer).
TopNs == (0 - 1)..MaxTopN

\* Links in the mapping of a cache file that exists when the program starts.
MaxCacheLinks == 2

\* A line of the file is the sequence of its characters, and so is a field of
\* a line and a page title: the title A is <<"A">>. An ASCII character is the
\* one-character string that holds it; a character outside ASCII is the string
\* "U+" followed by the four hexadecimal digits of its code point ("U+2003" is
\* the em space, "U+00E9" the letter e with acute accent), which is one
\* element of the sequence and so differs from the six ASCII characters that
\* spell it. These are the lines "1<TAB>f<TAB>2<TAB>t<NL>" that name an edge
\* f -> t.
EdgeLine(f, t) == <<"1", "\t">> \o f \o <<"\t", "2", "\t">> \o t \o <<"\n">>
WellFormedLines == {EdgeLine(f, t) : f \in Titles, t \in Titles}
\* Lines with three or five fields, with an empty last or first field, with
\* blanks at either end (the space, the form feed, the vertical tab U+000B,
\* the separators U+001C and U+001F, the no-break space U+00A0, the em space
\* U+2003, the ideographic space U+3000, the line separator U+2028), with a
\* letter outside ASCII as the fifth field, the last line of a file that does
\* not end in a newline, and the blank line.
OddLines ==
    {<<"1", "\t", "A", "\t", "2", "\n">>,
     <<"1", "\t", "A", "\t", "2", "\t", "B", "\t", "3", "\n">>,
     <<"1", "\t", "A", "\t", "2", "\t", "\n">>,
     <<" ", "\t", "A", "\t", "2", "\t", "B", "\n">>,
     <<" ", "1", "\t", "A", "\t", "2", "\t", "B", " ", "\f", "\n">>,
     <<"1", "\t", "A", "\t", "2", "\t", "B", "\t", " ", "\n">>,
     <<"1", "\t", "A", "\t", "2", "\t", " ", "\n">>,
     <<"1", "\t", "A", "\t", "2", "\t", "B", "\t", "", "\n">>,
     <<"1", "\t", "A", "\t", "2", "\t", "", "\n">>,
     <<"1", "\t", "A", "\t", "2", "\t", "B", "U+00A0", "\n">>,
     <<"1", "\t", "A", "\t", "2", "\t", "B", "U+2003", "\n">>,
     <<"1", "\t", "A", "\t", "2", "\t", "B", "\t", "U+2003", "\n">>,
     <<"U+3000", "1", "\t", "A", "\t", "2", "\t", "U+2028", "\n">>,
     <<"1", "\t", "A", "\t", "2", "\t", "B", "\t", "U+00E9", "\n">>,
     <<"", "1", "\t", "A", "\t", "2", "\t", "B">>,
     <<"", "\t", "A", "\t", "2", "\t", "B", "\n">>,
     <<"\n">>}
Lines == WellFormedLines \cup OddLines

\* The lines of the recommendation model: every title is the source of an
\* edge line and the titles of LinkTargets are its destinations, which is what
\* candidates with the scores 1 and 2 take.
LinkTargets == {<<"A">>, <<"B">>}
RecLines == {EdgeLine(f, t) : f \in Titles, t \in LinkTargets} \cup OddLines

\* What open() and next(file) find at the path of the edge list.
Files == {"missing", "empty", "lines"}

\* Python's None. It is no title: "None" is not a character.
None == <<"None">>

Range(s) == {s[i] : i \in 1..Len(s)}

NoDuplicates(seq) == \A i, j \in 1..Len(seq) : seq[i] = seq[j] => i = j

\* The empty dict.
EmptyMapping == [k \in {} |-> <<>>]

\* No cache file exists.
NoCache == [saved |-> FALSE, order |-> <<>>, adj |-> EmptyMapping]

\* The mappings a cache file holds when the program starts: a JSON object
\* whose keys are titles, in any order, and whose values are lists of titles;
\* a listed title need not be a key.
KeyOrders ==
    {o \in UNION {[1..n -> Titles] : n \in 0..Cardinality(Titles)} : NoDuplicates(o)}

LinkLists == UNION {[1..n -> Titles] : n \in 0..MaxCacheLinks}

RECURSIVE TotalLinks(_, _)
TotalLinks(keys, adj) ==
    IF Len(keys) = 0 THEN 0 ELSE Len(adj[Head(keys)]) + TotalLinks(Tail(keys), adj)

CachedMappings ==
    UNION {{[saved |-> TRUE, order |-> o, adj |-> a] :
               a \in {f \in [Range(o) -> LinkLists] : TotalLinks(o, f) <= MaxCacheLinks}} :
           o \in KeyOrders}

\* ---------------------------------------------------------------- state

VARIABLES
    pc,          \* "start", "reading", "idle", "bfs", "path_returned", "returned",
                 \* "crashed"
    built,       \* build_graph_from_file has been called
    nread,       \* lines of the file consumed after the header
    adj_order,   \* keys of self.adj_list, in insertion order
    adj_list,    \* self.adj_list: key -> out-link sequence
    cache,       \* the cache file: NoCache or the mapping it holds
    start_page,  \* self.start_page
    end_page,    \* self.end_page
    queue,       \* find_shortest_path's deque of <<page, path>>
    visited,     \* find_shortest_path's visited set
    enq_log,     \* every title appended to the deque in the running search
    deq_log,     \* every title popped from the deque in the running search
    accepted,    \* the <<from_title, to_title>> pairs of the lines that added an edge
    out          \* the last call: its arguments and what it returned or printed

vars == <<pc, built, nread, adj_order, adj_list, cache, start_page, end_page,
          queue, visited, enq_log, deq_log, accepted, out>>

search == <<queue, visited, enq_log, deq_log>>
graph == <<adj_order, adj_list>>
pointers == <<start_page, end_page>>

\* kind tells what the call returned or printed; for a path query it is "none"
\* (None), "list" (a list of titles) or "marked" (the list [0, [title]]);
\* printed and steps are what print_shortest_path printed.
NoOut ==
    [op |-> "none", title |-> <<>>, title2 |-> <<>>, top_n |-> 0, kind |-> "none",
     val |-> <<>>, sims |-> <<>>, out_degree |-> 0, in_degree |-> 0,
     printed |-> "", steps |-> 0]

\* ---------------------------------------------------------------- ingestion

\* The characters str.strip() removes, the 29 for which str.isspace() is true:
\* the space, U+0009 to U+000D (tab, newline, vertical tab, form feed, carriage
\* return), U+001C to U+001F, U+0085, U+00A0, U+1680, U+2000 to U+200A,
\* U+2028, U+2029, U+202F, U+205F and U+3000.
Whitespace ==
    {" ", "\t", "\n", "", "\f", "\r", "", "", "", "",
     "U+0085", "U+00A0", "U+1680",
     "U+2000", "U+2001", "U+2002", "U+2003", "U+2004", "U+2005", "U+2006",
     "U+2007", "U+2008", "U+2009", "U+200A",
     "U+2028", "U+2029", "U+202F", "U+205F", "U+3000"}

\* str.strip() removes every whitespace character at both ends of the line,
\* tabs included; whitespace inside the line stays.
RECURSIVE LStrip(_)
LStrip(chars) ==
    IF Len(chars) > 0 /\ Head(chars) \in Whitespace THEN LStrip(Tail(chars)) ELSE chars

RECURSIVE RStrip(_)
RStrip(chars) ==
    IF Len(chars) > 0 /\ chars[Len(chars)] \in Whitespace
    THEN RStrip(SubSeq(chars, 1, Len(chars) - 1))
    ELSE chars

\* str.split('\t') on the characters that follow, field being the characters
\* of the current field read so far; the result is the list of fields.
RECURSIVE SplitTabs(_, _)
SplitTabs(chars, field) ==
    IF Len(chars) = 0
    THEN <<field>>
    ELSE IF Head(chars) = "\t"
         THEN <<field>> \o SplitTabs(Tail(chars), <<>>)
         ELSE SplitTabs(Tail(chars), Append(field, Head(chars)))

\* line.strip().split('\t')
SplitLine(line) == SplitTabs(RStrip(LStrip(line)), <<>>)

\* self.adj_list[title] = [] when title is new.
InitKey(g, title) ==
    IF title \in DOMAIN g.adj
    THEN g
    ELSE [order |-> Append(g.order, title),
          adj |-> [k \in DOMAIN g.adj \cup {title} |->
                      IF k = title THEN <<>> ELSE g.adj[k]]]

\* self.adj_list[from_title].append(to_title)
AppendLink(g, from_title, to_title) ==
    [order |-> g.order,
     adj |-> [k \in DOMAIN g.adj |->
                 IF k = from_title THEN Append(g.adj[k], to_title) ELSE g.adj[k]]]

AddEdgeNoDestKey(g, from_title, to_title) ==
    AppendLink(InitKey(g, from_title), from_title, to_title)

\* Lines 48-54: both endpoints get an entry, then the directed edge is added.
AddEdge(g, from_title, to_title) ==
    AppendLink(InitKey(InitKey(g, from_title), to_title), from_title, to_title)

\* Lines 40-54: one iteration of the loop over the lines of the file.
ProcessLine(g, line) ==
    LET parts == SplitLine(line) IN
    IF Len(parts) # 4 THEN g ELSE AddEdge(g, parts[2], parts[4])

\* ---------------------------------------------------------------- queries

\* self.adj_list.get(page_title, [])
get_connections(adj, page_title) ==
    IF page_title \in DOMAIN adj THEN adj[page_title] ELSE <<>>

\* len(self.get_connections(page_title))
get_out_degree(adj, page_title) == Len(get_connections(adj, page_title))

\* Lines 202-206: one is added for every entry whose out-link list contains the
\* title, in the iteration order of the dict.
RECURSIVE InDegreeOver(_, _, _)
InDegreeOver(keys, adj, page_title) ==
    IF Len(keys) = 0
    THEN 0
    ELSE (IF page_title \in Range(adj[Head(keys)]) THEN 1 ELSE 0)
         + InDegreeOver(Tail(keys), adj, page_title)

get_in_degree(order, adj, page_title) == InDegreeOver(order, adj, page_title)

\* ---------------------------------------------------------------- shortest path

EarlyReturnSameFirst(adj, s, e) ==
    IF s = e THEN "same"
    ELSE IF s \notin DOMAIN adj \/ e \notin DOMAIN adj THEN "absent"
    ELSE "search"

\* Lines 129-133: the two early returns, in the order the code tests them.
EarlyReturn(adj, s, e) ==
    IF s \notin DOMAIN adj \/ e \notin DOMAIN adj THEN "absent"
    ELSE IF s = e THEN "same"
    ELSE "search"

EnqueueNeighborNoMark(st, path, neighbor) ==
    IF neighbor \notin st.visited
    THEN [queue |-> Append(st.queue, <<neighbor, Append(path, neighbor)>>),
          visited |-> st.visited,
          enq |-> Append(st.enq, neighbor)]
    ELSE st

EnqueueNeighborStalePath(st, path, neighbor) ==
    IF neighbor \notin st.visited
    THEN [queue |-> Append(st.queue, <<neighbor, path>>),
          visited |-> st.visited \cup {neighbor},
          enq |-> Append(st.enq, neighbor)]
    ELSE st

\* Lines 147-149: an unvisited neighbor is queued with its path and marked.
EnqueueNeighbor(st, path, neighbor) ==
    IF neighbor \notin st.visited
    THEN [queue |-> Append(st.queue, <<neighbor, Append(path, neighbor)>>),
          visited |-> st.visited \cup {neighbor},
          enq |-> Append(st.enq, neighbor)]
    ELSE st

\* Line 146: the loop over the out-links of the current page, in list order.
RECURSIVE Expand(_, _, _)
Expand(st, path, links) ==
    IF Len(links) = 0
    THEN st
    ELSE Expand(EnqueueNeighbor(st, path, Head(links)), path, Tail(links))

PathOut(s, e, kind, val) ==
    [NoOut EXCEPT !.op = "path", !.title = s, !.title2 = e, !.kind = kind, !.val = val]

SetPointersStartOnly(s, e) == start_page' = s /\ UNCHANGED end_page

\* Lines 126-127: the session pointers are assigned before anything is tested.
SetPointers(s, e) == start_page' = s /\ end_page' = e

\* Lines 126-137: the call up to the first test of the while loop.
FindShortestPath(s, e) ==
    /\ pc = "idle"
    /\ SetPointers(s, e)
    /\ LET branch == EarlyReturn(adj_list, s, e) IN
       CASE branch = "absent" ->
                /\ pc' = "path_returned"
                /\ out' = PathOut(s, e, "none", <<>>)
                /\ UNCHANGED search
         [] branch = "same" ->
                /\ pc' = "path_returned"
                /\ out' = PathOut(s, e, "marked", <<0, <<s>>>>)
                /\ UNCHANGED search
         [] branch = "search" ->
                /\ pc' = "bfs"
                /\ out' = PathOut(s, e, "pending", <<>>)
                /\ queue' = <<<<s, <<s>>>>>>
                /\ visited' = {}
                /\ enq_log' = <<s>>
                /\ deq_log' = <<>>
    /\ UNCHANGED <<built, nread, graph, cache, accepted>>

\* Lines 139-151: one test of the while loop and, when the deque is not empty,
\* one iteration of its body.
BfsStep ==
    /\ pc = "bfs"
    /\ IF Len(queue) = 0
       THEN /\ pc' = "path_returned"
            /\ out' = [out EXCEPT !.kind = "none", !.val = <<>>]
            /\ queue' = <<>> /\ visited' = {} /\ enq_log' = <<>> /\ deq_log' = <<>>
       ELSE LET current_page == queue[1][1]
                path == queue[1][2]
            IN  IF current_page = out.title2
                THEN /\ pc' = "path_returned"
                     /\ out' = [out EXCEPT !.kind = "list", !.val = path]
                     /\ queue' = <<>> /\ visited' = {}
                     /\ enq_log' = <<>> /\ deq_log' = <<>>
                ELSE LET st == Expand([queue |-> Tail(queue),
                                       visited |-> visited \cup {current_page},
                                       enq |-> enq_log],
                                      path, get_connections(adj_list, current_page))
                     IN  /\ pc' = "bfs"
                         /\ queue' = st.queue
                         /\ visited' = st.visited
                         /\ enq_log' = st.enq
                         /\ deq_log' = Append(deq_log, current_page)
                         /\ UNCHANGED out
    /\ UNCHANGED <<built, nread, graph, cache, accepted, pointers>>

\* Lines 166-170, after find_shortest_path has returned: a path, which is a
\* non-empty list, is printed with its step count len(path) - 1 and joined
\* with arrows; str.join raises TypeError on the list [0, [title]], whose
\* elements are not strings, and nothing catches it.
PrintShortestPath ==
    /\ pc = "path_returned"
    /\ IF out.kind = "none"
       THEN /\ pc' = "returned"
            /\ out' = [out EXCEPT !.printed = "nopath"]
       ELSE IF out.kind = "marked"
            THEN /\ pc' = "crashed"
                 /\ out' = [out EXCEPT !.printed = "steps", !.steps = Len(out.val) - 1]
            ELSE /\ pc' = "returned"
                 /\ out' = [out EXCEPT !.printed = "path", !.steps = Len(out.val) - 1]
    /\ UNCHANGED <<built, nread, graph, cache, accepted, pointers, search>>

\* ---------------------------------------------------------------- degrees

DegreesOut(page_title, out_degree, in_degree) ==
    [NoOut EXCEPT !.op = "degrees", !.title = page_title,
                  !.out_degree = out_degree, !.in_degree = in_degree]

PrintDegreesInserting(page_title) ==
    /\ pc = "idle"
    /\ pc' = "returned"
    /\ out' = DegreesOut(page_title, get_out_degree(adj_list, page_title),
                         get_in_degree(adj_order, adj_list, page_title))
    /\ LET g == InitKey([order |-> adj_order, adj |-> adj_list], page_title)
       IN  adj_order' = g.order /\ adj_list' = g.adj
    /\ UNCHANGED <<built, nread, cache, accepted, pointers, search>>

\* Lines 217-221: print_degrees, which calls get_out_degree and get_in_degree.
PrintDegrees(page_title) ==
    /\ pc = "idle"
    /\ pc' = "returned"
    /\ out' = DegreesOut(page_title, get_out_degree(adj_list, page_title),
                         get_in_degree(adj_order, adj_list, page_title))
    /\ UNCHANGED <<built, nread, graph, cache, accepted, pointers, search>>

\* ---------------------------------------------------------------- recommendation

\* Lines 306-318: len(set(links of the page) & set(links of the other page)).
similarity_score(adj, page_title, other_page) ==
    Cardinality(Range(adj[page_title]) \cap Range(adj[other_page]))

\* Lines 310-321: the scan of the dict in iteration order; the page itself and
\* the pages with score 0 are left out.
RECURSIVE SimilaritiesOver(_, _, _)
SimilaritiesOver(keys, adj, page_title) ==
    IF Len(keys) = 0
    THEN <<>>
    ELSE LET other_page == Head(keys)
             rest == SimilaritiesOver(Tail(keys), adj, page_title)
         IN  IF other_page = page_title
             THEN rest
             ELSE IF similarity_score(adj, page_title, other_page) > 0
                  THEN <<<<other_page, similarity_score(adj, page_title, other_page)>>>>
                       \o rest
                  ELSE rest

RECURSIVE InsertAscending(_, _)
InsertAscending(sorted, x) ==
    IF Len(sorted) = 0
    THEN <<x>>
    ELSE IF Head(sorted)[2] <= x[2]
         THEN <<Head(sorted)>> \o InsertAscending(Tail(sorted), x)
         ELSE <<x>> \o sorted

\* x goes after every element whose score is at least its own: the sort is
\* stable, as list.sort is, also with reverse=True.
RECURSIVE InsertDescending(_, _)
InsertDescending(sorted, x) ==
    IF Len(sorted) = 0
    THEN <<x>>
    ELSE IF Head(sorted)[2] >= x[2]
         THEN <<Head(sorted)>> \o InsertDescending(Tail(sorted), x)
         ELSE <<x>> \o sorted

\* Line 329: similarities.sort(key=lambda x: x[1], reverse=True)
RECURSIVE SortByScore(_)
SortByScore(sims) ==
    IF Len(sims) = 0
    THEN <<>>
    ELSE InsertDescending(SortByScore(SubSeq(sims, 1, Len(sims) - 1)), sims[Len(sims)])

SliceToOneMore(sims, top_n) ==
    SubSeq(sims, 1, IF top_n + 1 < Len(sims) THEN top_n + 1 ELSE Len(sims))

\* Line 332: similarities[:top_n]; a negative top_n counts from the end.
SliceTo(sims, top_n) ==
    IF top_n >= 0
    THEN SubSeq(sims, 1, IF top_n < Len(sims) THEN top_n ELSE Len(sims))
    ELSE SubSeq(sims, 1, IF Len(sims) + top_n > 0 THEN Len(sims) + top_n ELSE 0)

\* Lines 301-335: what recommend_articles computes and prints. kind is
\* "notfound" (line 302), "norecs" (line 325) or "list" (lines 333-335); sims is
\* the list of similarities as it stands when the call ends, val the printed one.
recommend_articles(order, adj, page_title, top_n) ==
    IF page_title \notin DOMAIN adj
    THEN [NoOut EXCEPT !.op = "recommend", !.title = page_title, !.top_n = top_n,
                       !.kind = "notfound"]
    ELSE LET similarities == SimilaritiesOver(order, adj, page_title) IN
         IF Len(similarities) = 0
         THEN [NoOut EXCEPT !.op = "recommend", !.title = page_title,
                            !.top_n = top_n, !.kind = "norecs"]
         ELSE [NoOut EXCEPT !.op = "recommend", !.title = page_title,
                            !.top_n = top_n, !.kind = "list",
                            !.sims = SortByScore(similarities),
                            !.val = SliceTo(SortByScore(similarities), top_n)]

\* A call of recommend_articles(page_title, top_n=top_n).
RecommendArticles(page_title, top_n) ==
    /\ pc = "idle"
    /\ pc' = "returned"
    /\ out' = recommend_articles(adj_order, adj_list, page_title, top_n)
    /\ UNCHANGED <<built, nread, graph, cache, accepted, pointers, search>>

\* ---------------------------------------------------------------- the program

Init ==
    /\ pc = "start"
    /\ built = FALSE
    /\ nread = 0
    /\ \E c \in {NoCache} \cup CachedMappings :
          /\ cache = c
          /\ adj_order = c.order
          /\ adj_list = c.adj
    /\ start_page = None
    /\ end_page = None
    /\ queue = <<>>
    /\ visited = {}
    /\ enq_log = <<>>
    /\ deq_log = <<>>
    /\ accepted = {}
    /\ out = NoOut

\* main, line 522: a mapping loaded from the cache that is not empty is used
\* as it is and the edge list is not read.
SkipBuild ==
    /\ pc = "start"
    /\ Len(adj_order) # 0
    /\ pc' = "idle"
    /\ UNCHANGED <<built, nread, graph, cache, accepted, pointers, search, out>>

\* main, lines 522-523, and lines 37-38: with an empty mapping the edge list
\* is opened and next(file) discards its first line, whatever it holds. open()
\* raises FileNotFoundError on a missing file and next(file) raises
\* StopIteration on a file without any line; nothing catches either.
OpenFile(file) ==
    /\ pc = "start"
    /\ Len(adj_order) = 0
    /\ built' = TRUE
    /\ pc' = IF file = "lines" THEN "reading" ELSE "crashed"
    /\ UNCHANGED <<nread, graph, cache, accepted, pointers, search, out>>

SkipHeader == \E file \in Files : OpenFile(file)

\* Lines 39-54 for one line of a file of at most limit lines.
ReadLine(line, limit) ==
    /\ pc = "reading"
    /\ nread < limit
    /\ nread' = nread + 1
    /\ LET g == ProcessLine([order |-> adj_order, adj |-> adj_list], line)
           parts == SplitLine(line)
       IN  /\ adj_order' = g.order
           /\ adj_list' = g.adj
           /\ accepted' = IF Len(parts) # 4
                          THEN accepted
                          ELSE accepted \cup {<<parts[2], parts[4]>>}
    /\ UNCHANGED <<pc, built, cache, pointers, search, out>>

ReadRecord == \E line \in Lines : ReadLine(line, MaxRecords)

ReadFileRecord == \E line \in RecLines : ReadLine(line, MaxFileRecords)

\* Line 56: the file is exhausted and cache_data saves the mapping.
FinishBuild ==
    /\ pc = "reading"
    /\ pc' = "idle"
    /\ cache' = [saved |-> TRUE, order |-> adj_order, adj |-> adj_list]
    /\ UNCHANGED <<built, nread, graph, accepted, pointers, search, out>>

\* print_shortest_path(s, e) calls find_shortest_path(s, e).
PathQuery == \E s \in Titles, e \in Titles : FindShortestPath(s, e)

DegreeQuery == \E t \in Titles : PrintDegrees(t)

RecommendQuery == \E t \in Titles, n \in TopNs : RecommendArticles(t, n)

\* The call has returned and the caller asks for the next one
\* (Explorer.explore_menu's loop).
Return ==
    /\ pc = "returned"
    /\ pc' = "idle"
    /\ out' = NoOut
    /\ UNCHANGED <<built, nread, graph, cache, accepted, pointers, search>>

Next ==
    \/ SkipBuild
    \/ SkipHeader
    \/ ReadRecord
    \/ FinishBuild
    \/ PathQuery
    \/ BfsStep
    \/ PrintShortestPath
    \/ DegreeQuery
    \/ RecommendQuery
    \/ Return

Spec == Init /\ [][Next]_vars

NextRec ==
    \/ SkipBuild
    \/ SkipHeader
    \/ ReadFileRecord
    \/ FinishBuild
    \/ RecommendQuery
    \/ Return

SpecRec == Init /\ [][NextRec]_vars

\* ---------------------------------------------------------------- reference notions

Loaded == pc \in {"idle", "bfs", "path_returned", "returned", "crashed"}

\* u -> v is an edge of the graph.
HasEdge(adj, u, v) == u \in DOMAIN adj /\ v \in Range(adj[u])

\* The titles a directed path of at most n steps leads to from s.
RECURSIVE ReachWithin(_, _, _)
ReachWithin(adj, s, n) ==
    IF n = 0
    THEN {s}
    ELSE LET R == ReachWithin(adj, s, n - 1)
         IN  R \cup {v \in DOMAIN adj : \E u \in R : HasEdge(adj, u, v)}

Reachable(adj, s, e) == e \in ReachWithin(adj, s, Cardinality(DOMAIN adj))

\* The least number of steps of a directed path from s to e, e reachable from s.
MinSteps(adj, s, e) ==
    CHOOSE n \in 0..Cardinality(DOMAIN adj) :
        /\ e \in ReachWithin(adj, s, n)
        /\ \A m \in 0..(n - 1) : e \notin ReachWithin(adj, s, m)

NonIncreasing(sims) == \A i, j \in 1..Len(sims) : i < j => sims[i][2] >= sims[j][2]

\* The titles both pages link to.
SharedLinks(adj, a, b) ==
    {x \in Titles : (\E i \in 1..Len(adj[a]) : adj[a][i] = x)
                    /\ (\E j \in 1..Len(adj[b]) : adj[b][j] = x)}

\* The other pages that share a link with page t.
Candidates(adj, t) == {o \in DOMAIN adj \ {t} : SharedLinks(adj, t, o) # {}}

\* The edges into t and out of t, one for each occurrence in an out-link list.
InEdges(adj, t) ==
    UNION {{<<k, i>> : i \in {j \in 1..Len(adj[k]) : adj[k][j] = t}} : k \in DOMAIN adj}
OutEdges(adj, t) == IF t \in DOMAIN adj THEN 1..Len(adj[t]) ELSE {}

\* find_shortest_path has returned to print_shortest_path.
PathReturned == pc = "path_returned" /\ out.op = "path"

\* ---------------------------------------------------------------- claims

\* C1: for distinct titles s and e that are both in the graph with a directed
\* path from s to e, find_shortest_path(s, e) returns a sequence that begins
\* with s, ends with e, follows an edge of the graph at every step, and has the
\* least step count of all directed paths from s to e.
C1_ShortestPath ==
    (/\ PathReturned
     /\ out.title # out.title2
     /\ out.title \in DOMAIN adj_list
     /\ out.title2 \in DOMAIN adj_list
     /\ Reachable(adj_list, out.title, out.title2))
    => /\ out.kind = "list"
       /\ Len(out.val) >= 1
       /\ out.val[1] = out.title
       /\ out.val[Len(out.val)] = out.title2
       /\ \A i \in 1..(Len(out.val) - 1) : HasEdge(adj_list, out.val[i], out.val[i + 1])
       /\ Len(out.val) - 1 = MinSteps(adj_list, out.title, out.title2)

\* A two-step path was returned although the graph holds more edges than the
\* two of the path.
C1_Witness ==
    /\ PathReturned
    /\ out.kind = "list"
    /\ out.title # out.title2
    /\ Len(out.val) = 3
    /\ Len(adj_list[out.title]) >= 2

\* C2: find_shortest_path returns None when the start or the end has no entry
\* in the graph (also when both are the same absent title) and when both are
\* present but no directed path leads from the start to the end.
C2_NotFound ==
    (/\ PathReturned
     /\ \/ out.title \notin DOMAIN adj_list
        \/ out.title2 \notin DOMAIN adj_list
        \/ ~Reachable(adj_list, out.title, out.title2))
    => out.kind = "none"

\* The search ran on two present titles and found the end unreachable.
C2_Witness ==
    /\ PathReturned
    /\ out.kind = "none"
    /\ out.title \in DOMAIN adj_list
    /\ out.title2 \in DOMAIN adj_list
    /\ Len(adj_list[out.title]) >= 1

\* C3: for a title s with an entry in the graph, find_shortest_path(s, s)
\* returns the one-element sequence [s], whose step count is 0.
C3_TrivialPath ==
    (PathReturned /\ out.title = out.title2 /\ out.title \in DOMAIN adj_list)
    => /\ out.kind = "list"
       /\ Len(out.val) = 1
       /\ Len(out.val) - 1 = 0
       /\ out.val[1] = out.title

RecommendReturned == pc = "returned" /\ out.op = "recommend"

\* C4: for a title in the graph, the candidates of recommend_articles are
\* exactly the other titles whose out-link set meets the title's, each scored
\* with the size of the intersection of the two sets (the same in both
\* directions), never with score 0, and the candidates are listed and reported
\* in non-increasing order of score.
C4_Recommend ==
    (RecommendReturned /\ out.title \in DOMAIN adj_list)
    => /\ {out.sims[i][1] : i \in 1..Len(out.sims)} = Candidates(adj_list, out.title)
       /\ Len(out.sims) = Cardinality(Candidates(adj_list, out.title))
       /\ \A i \in 1..Len(out.sims) :
             /\ out.sims[i][1] # out.title
             /\ out.sims[i][2] > 0
             /\ out.sims[i][2]
                  = Cardinality(SharedLinks(adj_list, out.title, out.sims[i][1]))
             /\ out.sims[i][2] = similarity_score(adj_list, out.sims[i][1], out.title)
       /\ NonIncreasing(out.sims)
       /\ NonIncreasing(out.val)
       /\ Range(out.val) \subseteq Range(out.sims)

\* Two candidates with different scores were found in ascending order of score,
\* one of them through a duplicated out-link, and both were reported.
C4_Witness ==
    /\ RecommendReturned
    /\ out.kind = "list"
    /\ Len(out.val) = 2
    /\ out.val[1][2] = 2
    /\ out.val[2][2] = 1
    /\ SimilaritiesOver(adj_order, adj_list, out.title) # out.sims

\* C5: for a title in the graph and any integer top_n, recommend_articles
\* reports the top_n highest-scoring candidates, or all k of them when
\* k < top_n: min(top_n, k) candidates, never more than top_n.
C5_TopN ==
    (RecommendReturned /\ out.title \in DOMAIN adj_list)
    => LET k == Cardinality(Candidates(adj_list, out.title))
       IN  /\ Len(out.val) = (IF out.top_n < k THEN out.top_n ELSE k)
           /\ Len(out.val) <= out.top_n
           /\ out.val = SubSeq(out.sims, 1, Len(out.val))

\* C5, amended: for a title in the graph with k candidates, recommend_articles
\* reports the first min(top_n, k) candidates of the sorted list when
\* top_n >= 0, never more than top_n, and the first max(k + top_n, 0) of them
\* when top_n < 0; no candidate left out scores higher than a reported one.
C5_TopNAmended ==
    (RecommendReturned /\ out.title \in DOMAIN adj_list)
    => LET k == Cardinality(Candidates(adj_list, out.title))
           n == out.top_n
       IN  /\ Len(out.sims) = k
           /\ n >= 0 => Len(out.val) = (IF n < k THEN n ELSE k)
           /\ n >= 0 => Len(out.val) <= n
           /\ n < 0 => Len(out.val) = (IF k + n > 0 THEN k + n ELSE 0)
           /\ out.val = SubSeq(out.sims, 1, Len(out.val))
           /\ \A i \in 1..Len(out.val) : \A j \in (Len(out.val) + 1)..k :
                 out.val[i][2] >= out.sims[j][2]

\* Two candidates of different scores qualified and top_n was 1: only the
\* higher-scoring one was reported.
C5_Witness ==
    /\ RecommendReturned
    /\ out.kind = "list"
    /\ out.top_n = 1
    /\ Len(out.sims) = 2
    /\ Len(out.val) = 1
    /\ out.sims[1][2] > out.sims[2][2]

\* C6: during and after build_graph_from_file, called on an empty mapping, every
\* title that was the source or the destination of an accepted edge is a key,
\* a title that was only ever a destination has an empty out-link sequence,
\* and every title in an out-link sequence is a key.
C6_EndpointsAreKeys ==
    built =>
    /\ \A e \in accepted : e[1] \in DOMAIN adj_list /\ e[2] \in DOMAIN adj_list
    /\ \A t \in Titles :
          ((\E e \in accepted : e[2] = t) /\ ~(\E e \in accepted : e[1] = t))
          => (t \in DOMAIN adj_list /\ adj_list[t] = <<>>)
    /\ \A k \in DOMAIN adj_list : \A i \in 1..Len(adj_list[k]) :
          adj_list[k][i] \in DOMAIN adj_list
    /\ Range(adj_order) = DOMAIN adj_list

\* In the middle of the file, a title that was only a destination has its
\* empty entry next to a source with two out-links.
C6_Witness ==
    /\ built
    /\ pc = "reading"
    /\ nread = 2
    /\ \E t \in DOMAIN adj_list : adj_list[t] = <<>>
    /\ \E k \in DOMAIN adj_list : Len(adj_list[k]) = 2

DegreesReturned == pc = "returned" /\ out.op = "degrees"

\* C7: get_out_degree(t) is the number of edges out of t and get_in_degree(t)
\* the number of edges into t, every occurrence of a destination in an
\* out-link sequence being one edge; both are 0 for a title not in the graph.
C7_Degrees ==
    DegreesReturned
    => /\ out.out_degree = Cardinality(OutEdges(adj_list, out.title))
       /\ out.in_degree = Cardinality(InEdges(adj_list, out.title))

\* C8: once the graph is loaded, no query changes the adjacency mapping: the
\* keys, their order and the out-link sequence of every key stay as they are.
C8_ReadOnly ==
    [][Loaded => (adj_list' = adj_list /\ adj_order' = adj_order)]_vars

\* A query about a title with no entry has returned, and the mapping is still
\* the one that was saved when the load ended.
C8_Witness ==
    /\ pc = "returned"
    /\ out.op \in {"degrees", "path", "recommend"}
    /\ out.title \notin DOMAIN adj_list
    /\ cache.saved
    /\ cache.order = adj_order
    /\ cache.adj = adj_list
    /\ Len(adj_order) >= 2

\* A step that begins a call of find_shortest_path.
PathCall == pc = "idle" /\ pc' \in {"bfs", "path_returned"} /\ out'.op = "path"

\* C9: start_page and end_page are None until the first path query; a call
\* find_shortest_path(s, e) leaves start_page = s and end_page = e whatever it
\* returns; no other operation changes them; and once set they are never None.
C9_Pointers ==
    /\ start_page = None /\ end_page = None
    /\ [][/\ PathCall => (start_page' = out'.title /\ end_page' = out'.title2)
          /\ ~PathCall => (start_page' = start_page /\ end_page' = end_page)
          /\ start_page # None => start_page' # None
          /\ end_page # None => end_page' # None]_vars
    /\ [](PathReturned => (start_page = out.title /\ end_page = out.title2))

\* A degree or recommendation query has returned after a path query that found
\* nothing, and both pointers hold that query's titles.
C9_Witness ==
    /\ pc = "returned"
    /\ out.op \in {"degrees", "recommend"}
    /\ start_page # None
    /\ end_page # None
    /\ end_page \notin DOMAIN adj_list
    /\ start_page # end_page

\* The titles waiting in the deque.
Queued == [i \in 1..Len(queue) |-> queue[i][1]]

\* C10: during a run of find_shortest_path every title is enqueued at most
\* once: the deque never holds a title twice, and a title that has been
\* dequeued is never enqueued again.
C10_EnqueuedOnce ==
    pc = "bfs"
    => /\ NoDuplicates(enq_log)
       /\ NoDuplicates(Queued)
       /\ NoDuplicates(deq_log)
       /\ Range(Queued) \cap Range(deq_log) = {}

\* Two pages have been expanded, and the second one links back to the start,
\* which was visited when the loop came to that link, or the start links twice
\* to the same title.
C10_Witness ==
    /\ pc = "bfs"
    /\ Len(deq_log) = 2
    /\ \/ HasEdge(adj_list, deq_log[2], deq_log[1])
       \/ Len(adj_list[deq_log[1]]) > Cardinality(Range(adj_list[deq_log[1]]))

====
